---- MODULE Spec2Model ----
(***************************************************************************)
(* Replay simulation of shroudstone's Rust core (rust/src/lib.rs and       *)
(* rust/src/gamestate.rs): the chunk iterator of ReplayFile, the event     *)
(* loop of simulate, and the two entry points simulate_replay_file and     *)
(* simulate_replay_files.                                                  *)
(***************************************************************************)
EXTENDS Integers, Sequences, FiniteSets, TLC

\* ------------------------------------------------------------------ bounds

\* Chunks of a recording under Spec.
MaxChunks == 4
\* Chunks of a recording under SpecSeating, which has the seating events only.
MaxSeatingChunks == 5
\* Chunks of all the recordings of a batch together under SpecBatch.
MaxBatchChunks == 3
\* Recordings handed to simulate_replay_files.
MaxPaths == 2
\* Chunks of a recording in SpecSettings.
MaxSettingChunks == 4
\* Chunks of a recording in SpecReseating.
MaxReseatingChunks == 6
\* Chunks of a recording in SpecDeparture.
MaxDepartureChunks == 6
\* Chunks of a recording in SpecSkipping.
MaxSkippingChunks == 4

\* ------------------------------------------------------- values and inputs

\* Option<T>: None is the empty tuple, Some(v) the one-element tuple.
None == <<>>
Some(v) == <<v>>
IsSome(o) == o # <<>>

\* The spectator sentinel of Client.slot_number.
Spectator == 255

\* chunk.client_id / ClientConnected.client_id / ClientDisconnected.client_id
ClientIds == {1, 2}
\* stormgate::UUID values (part1, part2 taken together as one opaque key)
Uuids == {"u1", "u2"}
\* The optional uuid field of AssignPlayerSlot, Player, ClientConnected and
\* ClientDisconnected.
OptionalUuids == {None} \cup {Some(u) : u \in Uuids}
\* The optional name of a Player message.
PlayerNames == {None, Some([nickname |-> "nick", discriminator |-> "0001"])}
\* AssignPlayerSlot.slot and the slot of a SpecificSlot choice.
SlotArgs == {1, 2, 3, 255}
\* SetVariable.slot
VariableSlots == {1, 2, 3}
\* MapDetails.match_type after enum_value_or_default
MatchTypes == {"Coop3vE", "Ranked1v1", "UnknownMatchType"}
\* SetVariable.variable_id, a u32 written as its decimal numeral (2952722564
\* is beyond the integers TLC holds; the arm only compares ids for equality):
\* the three recognised ids and one that is not.
VarSlotType == "374945738"
VarFaction == "2952722564"
VarAiType == "655515685"
VariableIds == {VarSlotType, VarFaction, VarAiType, "7"}
\* SetVariable.value
Values == {0, 1, 2, 7}
\* PlayerLeftGame.reason as a wire value (2 = Leave, 9 = no variant)
LeftReasons == {2, 9}
\* ClientDisconnected.reason as a wire value (3 = Disconnect, 9 = no variant)
DisconnectReasons == {3, 9}

\* ------------------------------------------------------------ gamestate.rs

\* SlotTypeFromPrimitive as a FromPrimitive with a default variant would be.
SlotTypeFromPrimitiveDefaulting(v) ==
    CASE v = 0 -> Some("Closed")
      [] v = 1 -> Some("Human")
      [] v = 2 -> Some("Ai")
      [] OTHER -> Some("Closed")

\* SlotType::try_from_primitive
SlotTypeFromPrimitive(v) ==
    CASE v = 0 -> Some("Closed")
      [] v = 1 -> Some("Human")
      [] v = 2 -> Some("Ai")
      [] OTHER -> None

\* Faction::try_from_primitive
FactionFromPrimitive(v) ==
    CASE v = 0 -> Some("Vanguard")
      [] v = 1 -> Some("Infernals")
      [] v = 2 -> Some("Celestial")
      [] v = 101 -> Some("Blockade")
      [] v = 102 -> Some("Amara")
      [] v = 201 -> Some("Maloc")
      [] v = 202 -> Some("Warz")
      [] v = 301 -> Some("Auralanna")
      [] OTHER -> None

\* AIType::try_from_primitive
AITypeFromPrimitive(v) ==
    CASE v = 0 -> Some("PeacefulBot")
      [] v = 1 -> Some("MurderBotJr")
      [] v = 2 -> Some("MurderBotSr")
      [] OTHER -> None

\* LeaveReason: From<stormgate::LeaveReason> through FromPrimitive, whose
\* default variant is Unknown.
LeaveReasonFrom(v) ==
    CASE v = 1 -> "Surrender"
      [] v = 2 -> "Leave"
      [] v = 3 -> "Disconnect"
      [] OTHER -> "Unknown"

\* impl Default for Slot
DefaultSlot ==
    [slot_type |-> "Human", faction |-> "Vanguard", ai_type |-> None, client_id |-> None]

\* Client::new
NewClient(client_id, uuid) ==
    [uuid |-> uuid, client_id |-> client_id, nickname |-> None,
     discriminator |-> None, slot_number |-> None,
     left_game_time |-> None, left_game_reason |-> "Unknown"]

\* The empty BTreeMap / HashMap.
EmptyMap == [k \in {} |-> None]

\* Insert that keeps no other entry.
InsertAlone(map, k, v) == [x \in {k} |-> v]

\* BTreeMap::insert / HashMap::insert
Insert(map, k, v) == [x \in DOMAIN map \cup {k} |-> IF x = k THEN v ELSE map[x]]

\* BTreeMap::remove
Remove(map, k) == [x \in DOMAIN map \ {k} |-> map[x]]

\* ------------------------------------------------------------------- state

VARIABLES
    map_name,          \* GameState.map_name
    slots,             \* GameState.slots
    clients,           \* GameState.clients
    game_started,      \* GameState.game_started
    game_started_time, \* GameState.game_started_time
    slot_assignments,  \* GameState.slot_assignments
    pc,                \* where simulate_replay_file is
    error,             \* the Err it returned, or the panic that unwound it
    decoded,           \* what the last ReplayFile::next did
    nread,             \* chunks the loop of simulate has taken from the iterator
    length,            \* the most chunks the recording can yield
    paths,             \* simulate_replay_files: recordings still to map
    collected,         \* simulate_replay_files: the Ok results so far
    finished           \* simulate_replay_files: how each recording ended

state == <<map_name, slots, clients, game_started, game_started_time, slot_assignments>>
batch == <<paths, collected, finished>>
vars == <<map_name, slots, clients, game_started, game_started_time,
          slot_assignments, pc, error, decoded, nread, length,
          paths, collected, finished>>

\* The GameState value held by the state variables.
GameState ==
    [map_name |-> map_name, slots |-> slots, clients |-> clients,
     game_started |-> game_started, game_started_time |-> game_started_time,
     slot_assignments |-> slot_assignments]

\* GameState::default()
DefaultState ==
    /\ map_name = None
    /\ slots = EmptyMap
    /\ clients = EmptyMap
    /\ game_started = FALSE
    /\ game_started_time = None
    /\ slot_assignments = EmptyMap

\* simulate_replay_file is called on a recording of at most `chunks` chunks,
\* with `more` recordings of the batch behind it.
Starts(chunks, more) ==
    /\ DefaultState
    /\ pc = "open"
    /\ error = "none"
    /\ decoded = "nothing"
    /\ nread = 0
    /\ length = chunks
    /\ paths = more
    /\ collected = <<>>
    /\ finished = <<>>

Init == Starts(MaxChunks, 0)


\* -------------------------------------------------------- ReplayFile::next

\* What the stream holds where ReplayFile::next reads: whether a varint
\* length prefix can be read, the length it gives, the bytes that follow it,
\* and whether those bytes parse as a ReplayChunk.
Frames ==
    [prefix : BOOLEAN, len : 1..2, remaining : 0..1, well_formed : BOOLEAN]

\* ReplayFile::next on a frame: "end" for None, "chunk" for Some, and the
\* two unwrap() failures.
NextOf(frame) ==
    IF ~frame.prefix THEN "end"
    ELSE IF frame.remaining < frame.len THEN "short read"
    ELSE IF ~frame.well_formed THEN "bad record"
    ELSE "chunk"

\* What ReplayFile::next can do on the frames a stream may hold.
NextResults == {NextOf(frame) : frame \in Frames}

\* ------------------------------------------------- simulate: shared pieces

\* The timestamp of the next chunk of the recording (recordings are logs:
\* every chunk is stamped later than the one before it).
Timestamps == {nread + 1}

\* `for chunk in replay`: ReplayFile::next yields Some(chunk)
Read ==
    /\ pc = "simulate"
    /\ nread < length
    /\ nread' = nread + 1
    /\ "chunk" \in NextResults
    /\ decoded' = "chunk"
    /\ UNCHANGED <<length, batch>>

\* The local `state` of simulate goes out of scope without being returned:
\* no GameState is left, and the state variables hold the empty one.
Dropped ==
    /\ map_name' = None
    /\ slots' = EmptyMap
    /\ clients' = EmptyMap
    /\ game_started' = FALSE
    /\ game_started_time' = None
    /\ slot_assignments' = EmptyMap

\* The loop goes on to the next chunk.
Continue == pc' = "simulate" /\ error' = error
\* `return Err(msg)`: simulate_replay_file turns it into a PyRuntimeError.
Fail(msg) == pc' = "raised" /\ error' = msg /\ Dropped
\* unwrap() on None / Err, or a failed assert_eq!: the thread unwinds.
Panic(msg) == pc' = "panicked" /\ error' = msg /\ Dropped

ErrBeforeMap == "Received slot change before map info?"
ErrUnknownClient == "Unknown client"
ErrOutOfRange == "Slot out of range"
ErrNotOpen == "Client assigned to non-human or occupied slot?"
ErrIo == "io::Error"
PanicUnwrapNone == "called Option::unwrap() on a None value"
PanicUnwrapErr == "called Result::unwrap() on an Err value"
PanicAssertEq == "assertion left == right failed"

\* take_content(chunk) is None: `continue`
SkipEmpty ==
    /\ Read
    /\ Continue
    /\ UNCHANGED state

\* ------------------------------------------------------- CT::MapDetails(m)

\* SlotCount with the Coop3vE arm lost.
SlotCountAlwaysTwo(match_type) == 2

\* slot_count of a match type
SlotCount(match_type) ==
    CASE match_type = "Coop3vE" -> 3
      [] match_type = "Ranked1v1" -> 2
      [] OTHER -> 2

MapDetailsArm(m) ==
    /\ map_name' = Some(m.map_name)
    /\ slots' = [i \in DOMAIN slots \cup (1..SlotCount(m.match_type)) |->
                    IF i \in 1..SlotCount(m.match_type) THEN DefaultSlot ELSE slots[i]]
    /\ Continue
    /\ UNCHANGED <<clients, game_started, game_started_time, slot_assignments>>

MapDetailsOf(match_type) ==
    /\ Read
    /\ MapDetailsArm([map_name |-> "map", match_type |-> match_type])

MapDetails == \E match_type \in MatchTypes : MapDetailsOf(match_type)

\* ------------------------------------------------- CT::AssignPlayerSlot(m)

AssignPlayerSlotArm(m) ==
    IF ~IsSome(m.uuid)
    THEN Continue /\ UNCHANGED state
    ELSE /\ slot_assignments' =
                Insert(slot_assignments, m.uuid[1],
                       [slot_number |-> m.slot, nickname |-> m.nickname])
         /\ Continue
         /\ UNCHANGED <<map_name, slots, clients, game_started, game_started_time>>

AssignPlayerSlotOf(uuid, slot) ==
    /\ Read
    /\ AssignPlayerSlotArm([uuid |-> uuid, slot |-> slot, nickname |-> "nick"])

AssignPlayerSlot ==
    \E uuid \in OptionalUuids, slot \in SlotArgs : AssignPlayerSlotOf(uuid, slot)

\* ------------------------------------------------------------ CT::Player(m)

\* `state.slots.get_mut(&assignment.slot_number).unwrap()` finds no slot
PlayerSlotMissing(uuid) ==
    /\ uuid \in DOMAIN slot_assignments
    /\ slot_assignments[uuid].slot_number \notin DOMAIN slots

\* The Client built by the Player arm before it is inserted.
PlayerClient(client_id, m) ==
    LET fresh == NewClient(client_id, m.uuid[1])
        named == IF IsSome(m.name)
                 THEN [fresh EXCEPT !.nickname = Some(m.name[1].nickname),
                                    !.discriminator = Some(m.name[1].discriminator)]
                 ELSE fresh
    IN IF m.uuid[1] \in DOMAIN slot_assignments
       THEN [named EXCEPT !.slot_number = Some(slot_assignments[m.uuid[1]].slot_number)]
       ELSE named

PlayerArm(client_id, m) ==
    IF ~IsSome(m.uuid)
    THEN Continue /\ UNCHANGED state
    ELSE IF PlayerSlotMissing(m.uuid[1])
    THEN Panic(PanicUnwrapNone)
    ELSE /\ slots' = IF m.uuid[1] \in DOMAIN slot_assignments
                     THEN [slots EXCEPT ![slot_assignments[m.uuid[1]].slot_number].client_id =
                                            Some(client_id)]
                     ELSE slots
         /\ clients' = Insert(clients, client_id, PlayerClient(client_id, m))
         /\ Continue
         /\ UNCHANGED <<map_name, game_started, game_started_time, slot_assignments>>

PlayerOf(client_id, uuid, name) ==
    /\ Read
    /\ PlayerArm(client_id, [uuid |-> uuid, name |-> name])

Player ==
    \E client_id \in ClientIds, uuid \in OptionalUuids, name \in PlayerNames :
        PlayerOf(client_id, uuid, name)

\* --------------------------------------------------- CT::ClientConnected(m)

\* The Client built by the ClientConnected arm before it is inserted.
ConnectedClient(m) ==
    LET fresh == NewClient(m.client_id, m.uuid[1])
    IN IF m.uuid[1] \in DOMAIN slot_assignments
       THEN LET assignment == slot_assignments[m.uuid[1]]
            IN [fresh EXCEPT !.slot_number = Some(assignment.slot_number),
                             !.nickname = Some(assignment.nickname)]
       ELSE fresh

ClientConnectedArm(m) ==
    IF ~IsSome(m.uuid)
    THEN Continue /\ UNCHANGED state
    ELSE /\ slots' = IF /\ m.uuid[1] \in DOMAIN slot_assignments
                        /\ slot_assignments[m.uuid[1]].slot_number \in DOMAIN slots
                     THEN [slots EXCEPT ![slot_assignments[m.uuid[1]].slot_number].client_id =
                                            Some(m.client_id)]
                     ELSE slots
         /\ clients' = Insert(clients, m.client_id, ConnectedClient(m))
         /\ Continue
         /\ UNCHANGED <<map_name, game_started, game_started_time, slot_assignments>>

ClientConnectedOf(announced, uuid) ==
    /\ Read
    /\ ClientConnectedArm([uuid |-> uuid, client_id |-> announced])

ClientConnected ==
    \E announced \in ClientIds, uuid \in OptionalUuids : ClientConnectedOf(announced, uuid)

\* ---------------------------------------------------- CT::PlayerLeftGame(m)

\* LeftAfterStart with the started branch never taken.
LeftAfterStartNever == FALSE

\* `if state.game_started` of the PlayerLeftGame arm
LeftAfterStart == game_started

\* VacateSlotsOf with the loop left out.
VacateSlotsOfNothing(slotsMap, client_id) == slotsMap

\* VacateSlotsOf with the comparison inverted.
VacateSlotsOfOthers(slotsMap, client_id) ==
    [n \in DOMAIN slotsMap |->
        IF slotsMap[n].client_id # Some(client_id)
        THEN [slotsMap[n] EXCEPT !.client_id = None]
        ELSE slotsMap[n]]

\* The loop over state.slots.iter_mut() that frees the slots of a client.
VacateSlotsOf(slotsMap, client_id) ==
    [n \in DOMAIN slotsMap |->
        IF slotsMap[n].client_id = Some(client_id)
        THEN [slotsMap[n] EXCEPT !.client_id = None]
        ELSE slotsMap[n]]

\* The departure fields both departure arms write.
Departed(c, timestamp, reason) ==
    [c EXCEPT !.left_game_time = Some(timestamp),
              !.left_game_reason = LeaveReasonFrom(reason)]

PlayerLeftGameArm(timestamp, client_id, m) ==
    IF LeftAfterStart
    THEN /\ clients' = IF client_id \in DOMAIN clients
                       THEN [clients EXCEPT ![client_id] = Departed(@, timestamp, m.reason)]
                       ELSE clients
         /\ Continue
         /\ UNCHANGED <<map_name, slots, game_started, game_started_time, slot_assignments>>
    ELSE /\ clients' = Remove(clients, client_id)
         /\ slots' = VacateSlotsOf(slots, client_id)
         /\ Continue
         /\ UNCHANGED <<map_name, game_started, game_started_time, slot_assignments>>

PlayerLeftGameOf(timestamp, client_id, reason) ==
    /\ Read
    /\ PlayerLeftGameArm(timestamp, client_id, [reason |-> reason])

PlayerLeftGame ==
    \E timestamp \in Timestamps, client_id \in ClientIds, reason \in LeftReasons :
        PlayerLeftGameOf(timestamp, client_id, reason)

\* ------------------------------------------------ CT::ClientDisconnected(m)

\* DisconnectApplies without the test for a departure already recorded.
DisconnectAppliesAgain(m) ==
    /\ game_started
    /\ m.client_id \in DOMAIN clients

\* The arm reaches the departure of a client that has none recorded yet.
DisconnectApplies(m) ==
    /\ game_started
    /\ m.client_id \in DOMAIN clients
    /\ ~IsSome(clients[m.client_id].left_game_time)

ClientDisconnectedArm(timestamp, m) ==
    IF ~DisconnectApplies(m)
    THEN Continue /\ UNCHANGED state
    ELSE IF ~IsSome(m.player_uuid)
    THEN Panic(PanicUnwrapNone)
    ELSE IF clients[m.client_id].uuid # m.player_uuid[1]
    THEN Panic(PanicAssertEq)
    ELSE /\ clients' = [clients EXCEPT ![m.client_id] = Departed(@, timestamp, m.reason)]
         /\ Continue
         /\ UNCHANGED <<map_name, slots, game_started, game_started_time, slot_assignments>>

ClientDisconnectedOf(timestamp, target, player_uuid, reason) ==
    /\ Read
    /\ ClientDisconnectedArm(timestamp, [client_id |-> target, player_uuid |-> player_uuid,
                                         reason |-> reason])

ClientDisconnected ==
    \E timestamp \in Timestamps, target \in ClientIds, player_uuid \in OptionalUuids,
       reason \in DisconnectReasons :
        ClientDisconnectedOf(timestamp, target, player_uuid, reason)

\* -------------------------------------------------------- CT::ChangeSlot(m)

RECURSIVE ScanSlots(_, _)
\* The `for (num, slot) in slots.iter()` of first_open_human_slot: a BTreeMap
\* iterates in ascending key order; `keys` are the keys not yet visited.
ScanSlots(slotsMap, keys) ==
    IF keys = {}
    THEN 255
    ELSE LET num == CHOOSE k \in keys : \A j \in keys : k <= j
         IN IF ~IsSome(slotsMap[num].client_id) /\ slotsMap[num].slot_type = "Human"
            THEN num
            ELSE ScanSlots(slotsMap, keys \ {num})

\* first_open_human_slot with the slot type left out of the test.
first_open_slot_of_any_type(slotsMap) ==
    IF \E n \in DOMAIN slotsMap : ~IsSome(slotsMap[n].client_id)
    THEN CHOOSE n \in DOMAIN slotsMap :
            /\ ~IsSome(slotsMap[n].client_id)
            /\ \A j \in DOMAIN slotsMap : ~IsSome(slotsMap[j].client_id) => n <= j
    ELSE 255

first_open_human_slot(slotsMap) == ScanSlots(slotsMap, DOMAIN slotsMap)

\* ChangeSlotRefused with its two checks in the other order.
ChangeSlotRefusedClientFirst(client_id) ==
    IF client_id \notin DOMAIN clients THEN ErrUnknownClient
    ELSE IF DOMAIN slots = {} THEN ErrBeforeMap
    ELSE "none"

\* The two checks the arm opens with: the Err it returns, or "none".
ChangeSlotRefused(client_id) ==
    IF DOMAIN slots = {} THEN ErrBeforeMap
    ELSE IF client_id \notin DOMAIN clients THEN ErrUnknownClient
    ELSE "none"

\* IsSeat with the sentinel forgotten.
IsSeatAlways(slot_number) == TRUE

\* `slot_number != 255`: the number names a seat, not the spectator sentinel.
IsSeat(slot_number) == slot_number # Spectator

\* The client's recorded slot must be vacated and is no key of state.slots.
PreviousOutOfRange(client_id) ==
    /\ IsSome(clients[client_id].slot_number)
    /\ IsSeat(clients[client_id].slot_number[1])
    /\ clients[client_id].slot_number[1] \notin DOMAIN slots

\* state.slots once the client's previous slot has been vacated.
Vacated(client_id) ==
    LET prev == clients[client_id].slot_number
    IN IF IsSome(prev) /\ IsSeat(prev[1]) /\ prev[1] \in DOMAIN slots
       THEN [slots EXCEPT ![prev[1]].client_id = None]
       ELSE slots

\* new_slot_number
NewSlotNumber(client_id, choice) ==
    IF choice.kind = "SpecificSlot"
    THEN choice.slot
    ELSE first_open_human_slot(Vacated(client_id))

\* ReassignRefused with the occupancy test left out.
ReassignRefusedTypeOnly(slotsMap, new_slot_number) ==
    IF ~IsSeat(new_slot_number) THEN "none"
    ELSE IF new_slot_number \notin DOMAIN slotsMap THEN ErrOutOfRange
    ELSE IF slotsMap[new_slot_number].slot_type # "Human" THEN ErrNotOpen
    ELSE "none"

\* The Err of the reassignment, or "none".
ReassignRefused(slotsMap, new_slot_number) ==
    IF ~IsSeat(new_slot_number) THEN "none"
    ELSE IF new_slot_number \notin DOMAIN slotsMap THEN ErrOutOfRange
    ELSE IF \/ slotsMap[new_slot_number].slot_type # "Human"
            \/ IsSome(slotsMap[new_slot_number].client_id)
         THEN ErrNotOpen
    ELSE "none"

ChangeSlotArm(client_id, m) ==
    IF ChangeSlotRefused(client_id) # "none"
    THEN Fail(ChangeSlotRefused(client_id))
    ELSE IF PreviousOutOfRange(client_id)
    THEN Fail(ErrOutOfRange)
    ELSE IF ReassignRefused(Vacated(client_id), NewSlotNumber(client_id, m.choice)) # "none"
    THEN Fail(ReassignRefused(Vacated(client_id), NewSlotNumber(client_id, m.choice)))
    ELSE LET new_slot_number == NewSlotNumber(client_id, m.choice)
         IN /\ clients' = [clients EXCEPT ![client_id].slot_number = Some(new_slot_number)]
            /\ slots' = IF IsSeat(new_slot_number)
                        THEN [Vacated(client_id) EXCEPT
                                 ![new_slot_number].client_id = Some(client_id)]
                        ELSE Vacated(client_id)
            /\ Continue
            /\ UNCHANGED <<map_name, game_started, game_started_time, slot_assignments>>

\* m.choice.take().and_then(|x| x.choice_type)
Choices ==
    {[kind |-> "None"]} \cup {[kind |-> "SpecificSlot", slot |-> s] : s \in SlotArgs}

ChangeSlotOf(client_id, choice) ==
    /\ Read
    /\ ChangeSlotArm(client_id, [choice |-> choice])

ChangeSlot ==
    \E client_id \in ClientIds, choice \in Choices : ChangeSlotOf(client_id, choice)

\* ------------------------------------------------------- CT::SetVariable(m)

\* SetVariableOn that also frees a slot it closes.
SetVariableOnFreeing(slot, m) ==
    IF m.variable_id = VarSlotType /\ SlotTypeFromPrimitive(m.value) = Some("Closed")
    THEN [slot EXCEPT !.slot_type = "Closed", !.ai_type = None, !.client_id = None]
    ELSE slot

\* The slot after `match m.variable_id { ... }`
SetVariableOn(slot, m) ==
    CASE m.variable_id = VarSlotType ->
            IF IsSome(SlotTypeFromPrimitive(m.value))
            THEN [slot EXCEPT !.slot_type = SlotTypeFromPrimitive(m.value)[1],
                              !.ai_type = IF SlotTypeFromPrimitive(m.value)[1] = "Ai"
                                          THEN Some("PeacefulBot") ELSE None]
            ELSE slot
      [] m.variable_id = VarFaction ->
            IF IsSome(FactionFromPrimitive(m.value))
            THEN [slot EXCEPT !.faction = FactionFromPrimitive(m.value)[1]]
            ELSE slot
      [] m.variable_id = VarAiType ->
            IF IsSome(AITypeFromPrimitive(m.value))
            THEN [slot EXCEPT !.ai_type = Some(AITypeFromPrimitive(m.value)[1])]
            ELSE slot
      [] OTHER -> slot

SetVariableArm(m) ==
    IF m.slot \notin DOMAIN slots
    THEN Fail(ErrOutOfRange)
    ELSE /\ slots' = [slots EXCEPT ![m.slot] = SetVariableOn(@, m)]
         /\ Continue
         /\ UNCHANGED <<map_name, clients, game_started, game_started_time, slot_assignments>>

SetVariableOf(slot, variable_id, value) ==
    /\ Read
    /\ SetVariableArm([slot |-> slot, variable_id |-> variable_id, value |-> value])

SetVariable ==
    \E slot \in VariableSlots, variable_id \in VariableIds, value \in Values :
        SetVariableOf(slot, variable_id, value)

\* --------------------------------------------------------- CT::StartGame(_)

StartGameArm(timestamp) ==
    /\ game_started' = TRUE
    /\ game_started_time' = Some(timestamp)
    /\ Continue
    /\ UNCHANGED <<map_name, slots, clients, slot_assignments>>

StartGameOf(timestamp) ==
    /\ Read
    /\ StartGameArm(timestamp)

StartGame == \E timestamp \in Timestamps : StartGameOf(timestamp)

\* -------------------------------------------- ReplayFile and the entry point

\* ReplayFile::open / open_unzipped returns Ok
Open ==
    /\ pc = "open"
    /\ pc' = "simulate"
    /\ UNCHANGED <<state, batch, error, decoded, nread, length>>

\* ReplayFile::open / open_unzipped returns Err: `?` returns it
OpenFails ==
    /\ pc = "open"
    /\ Fail(ErrIo)
    /\ UNCHANGED <<batch, decoded, nread, length>>

\* ReplayFile::next returns None: the loop ends and simulate returns Ok(state)
EndOfStream ==
    /\ pc = "simulate"
    /\ "end" \in NextResults
    /\ decoded' = "end"
    /\ pc' = "returned"
    /\ UNCHANGED <<state, batch, error, nread, length>>

\* read_exact(..).unwrap() or parse_from_bytes(..).unwrap() panics
DecodeFails ==
    /\ pc = "simulate"
    /\ \E failure \in NextResults \ {"end", "chunk"} : decoded' = failure
    /\ Panic(PanicUnwrapErr)
    /\ UNCHANGED <<batch, nread, length>>

Next ==
    \/ Open
    \/ OpenFails
    \/ EndOfStream
    \/ DecodeFails
    \/ SkipEmpty
    \/ MapDetails
    \/ AssignPlayerSlot
    \/ Player
    \/ ClientConnected
    \/ PlayerLeftGame
    \/ ClientDisconnected
    \/ ChangeSlot
    \/ SetVariable
    \/ StartGame

Spec == Init /\ [][Next]_vars

\* The seating events alone (no SetVariable, no StartGame, no departure after
\* the start), on longer recordings.
InitSeating == Starts(MaxSeatingChunks, 0)

NextSeating ==
    \/ Open
    \/ EndOfStream
    \/ MapDetails
    \/ AssignPlayerSlot
    \/ ChangeSlot
    \/ Player
    \/ ClientConnected
    \/ PlayerLeftGame

SpecSeating == InitSeating /\ [][NextSeating]_vars

\* The events that set up and configure the lobby (no ChangeSlot, no
\* ClientConnected, no ClientDisconnected, no StartGame), with one player
\* identifier.
InitSettings == Starts(MaxSettingChunks, 0)

\* AssignPlayerSlot events for one player identifier.
AssignFirstPlayer == \E slot \in SlotArgs : AssignPlayerSlotOf(Some("u1"), slot)

\* Player events of that player, without a name.
FirstPlayer == \E client_id \in ClientIds : PlayerOf(client_id, Some("u1"), None)

NextSettings ==
    \/ Open
    \/ EndOfStream
    \/ MapDetails
    \/ AssignFirstPlayer
    \/ FirstPlayer
    \/ PlayerLeftGame
    \/ SetVariable

SpecSettings == InitSettings /\ [][NextSettings]_vars

\* ClientConnected events announcing a client of that player.
FirstClientConnected == \E announced \in ClientIds : ClientConnectedOf(announced, Some("u1"))

\* SetVariable events for the slot-type variable.
SetSlotType ==
    \E slot \in VariableSlots, value \in Values : SetVariableOf(slot, VarSlotType, value)

\* The events that decide where ChangeSlot can seat a client, with one player
\* identifier, on longer recordings.
InitReseating == Starts(MaxReseatingChunks, 0)

NextReseating ==
    \/ Open
    \/ EndOfStream
    \/ MapDetails
    \/ AssignFirstPlayer
    \/ FirstPlayer
    \/ FirstClientConnected
    \/ ChangeSlot
    \/ SetSlotType

SpecReseating == InitReseating /\ [][NextReseating]_vars

\* The events around a departure: the map is loaded, one player is assigned
\* a slot and joins, the match starts, clients leave or are disconnected.
InitDeparture == Starts(MaxDepartureChunks, 0)

NextDeparture ==
    \/ Open
    \/ EndOfStream
    \/ MapDetails
    \/ AssignFirstPlayer
    \/ FirstPlayer
    \/ StartGame
    \/ PlayerLeftGame
    \/ ClientDisconnected

SpecDeparture == InitDeparture /\ [][NextDeparture]_vars

\* The events that can be skipped, and those that read or write the slot
\* assignments and the lobby.
InitSkipping == Starts(MaxSkippingChunks, 0)

NextSkipping ==
    \/ Open
    \/ EndOfStream
    \/ SkipEmpty
    \/ MapDetails
    \/ AssignPlayerSlot
    \/ Player
    \/ ClientConnected
    \/ PlayerLeftGame

SpecSkipping == InitSkipping /\ [][NextSkipping]_vars

\* ---------------------------------------------------- simulate_replay_files

\* The item `.map(|f| simulate_replay_file(f, gzipped))` yields for the
\* recording that just ended: Ok(state) as Some, Err as None.
Mapped == IF pc = "returned" THEN Some(GameState) ELSE None

\* `.map(..).filter_map(PyResult::ok).collect()` takes the result of the
\* recording that just ended, keeps it if it is Ok, and goes on to the next
\* path; after the last path the Vec is returned. A panic of
\* simulate_replay_file is no item of the iterator: it unwinds through
\* collect(), so pc = "panicked" has no successor here either.
NextPath ==
    /\ pc \in {"returned", "raised"}
    /\ paths > 0
    /\ finished' = Append(finished, Mapped)
    /\ collected' = IF IsSome(Mapped) THEN Append(collected, GameState) ELSE collected
    /\ paths' = paths - 1
    /\ map_name' = None
    /\ slots' = EmptyMap
    /\ clients' = EmptyMap
    /\ game_started' = FALSE
    /\ game_started_time' = None
    /\ slot_assignments' = EmptyMap
    /\ error' = "none"
    /\ decoded' = "nothing"
    /\ nread' = 0
    /\ length' = length - nread
    /\ pc' = IF paths > 1 THEN "open" ELSE "collected"

InitBatch == \E n \in 1..MaxPaths : Starts(MaxBatchChunks, n)

NextBatch == Next \/ NextPath

SpecBatch == InitBatch /\ [][NextBatch]_vars

\* ------------------------------------------------------------------ claims

\* C1: no two distinct slots have the same non-null occupant client_id, in
\* every state simulate reaches.
NoSharedOccupant ==
    pc \in {"simulate", "returned"} =>
        \A a \in DOMAIN slots, b \in DOMAIN slots :
            (a # b /\ IsSome(slots[a].client_id)) => slots[a].client_id # slots[b].client_id

\* C2: every slot has ai_type Some exactly when its slot_type is Ai.
AiTypeIffAi ==
    \A n \in DOMAIN slots : IsSome(slots[n].ai_type) <=> (slots[n].slot_type = "Ai")

\* C3: PlayerLeftGame from client c before the start removes c from the clients
\* and leaves no slot occupied by c; after the start it keeps c, sets only c's
\* left_game_time (the chunk's timestamp) and left_game_reason, and changes no
\* slot and no other client.
LeftGameEffect ==
    [][\A t \in Timestamps, c \in ClientIds, reason \in LeftReasons :
          PlayerLeftGameOf(t, c, reason) =>
              IF ~game_started
              THEN /\ c \notin DOMAIN clients'
                   /\ \A n \in DOMAIN slots' : slots'[n].client_id # Some(c)
                   /\ pc' = "simulate"
              ELSE /\ slots' = slots
                   /\ DOMAIN clients' = DOMAIN clients
                   /\ \A d \in DOMAIN clients \ {c} : clients'[d] = clients[d]
                   /\ c \in DOMAIN clients =>
                         clients'[c] = [clients[c] EXCEPT
                                           !.left_game_time = Some(t),
                                           !.left_game_reason = LeaveReasonFrom(reason)]
                   /\ pc' = "simulate"]_vars

\* C3 witness: the chunk just processed was a PlayerLeftGame (reason Leave)
\* after the start, from a client that is kept with the chunk's timestamp.
LeftGameAfterStart ==
    /\ pc = "simulate"
    /\ game_started
    /\ \E c \in DOMAIN clients :
          /\ clients[c].left_game_reason = "Leave"
          /\ clients[c].left_game_time = Some(nread)

\* No slot that is occupied after the step was given its occupant by the step.
NoSlotGained ==
    \A n \in DOMAIN slots' :
        IsSome(slots'[n].client_id) =>
            n \in DOMAIN slots /\ slots'[n].client_id = slots[n].client_id

\* C4 as claimed: with a slot in the map and the acting client known, a
\* ChangeSlot for the specific slot 255 always succeeds, whatever the client's
\* recorded slot number.
SpectateAlwaysSucceeds ==
    [][\A c \in ClientIds :
          (/\ ChangeSlotOf(c, [kind |-> "SpecificSlot", slot |-> 255])
           /\ DOMAIN slots # {}
           /\ c \in DOMAIN clients)
          => /\ pc' = "simulate"
             /\ clients'[c].slot_number = Some(255)
             /\ NoSlotGained]_vars

\* C4 amended: it succeeds exactly when the client's recorded slot number is
\* absent, 255 or a slot of the map; then the client's slot_number is 255 and
\* no slot has gained an occupant. With any other recorded slot number it is
\* the fatal slot-out-of-range error.
SpectateSucceedsFromValidSlot ==
    [][\A c \in ClientIds :
          (/\ ChangeSlotOf(c, [kind |-> "SpecificSlot", slot |-> 255])
           /\ DOMAIN slots # {}
           /\ c \in DOMAIN clients)
          => IF \/ clients[c].slot_number \in {None, Some(255)}
                \/ clients[c].slot_number[1] \in DOMAIN slots
             THEN /\ pc' = "simulate"
                  /\ clients'[c].slot_number = Some(255)
                  /\ NoSlotGained
             ELSE /\ pc' = "raised"
                  /\ error' = ErrOutOfRange]_vars

\* C4 witness: a client is a spectator though no SlotAssignment was ever
\* recorded (only ChangeSlot can have set 255), with every slot open.
SpectatorByChoice ==
    /\ pc = "simulate"
    /\ slot_assignments = EmptyMap
    /\ DOMAIN slots # {}
    /\ \A n \in DOMAIN slots : slots[n] = DefaultSlot
    /\ \E c \in DOMAIN clients : clients[c].slot_number = Some(255)

\* The slot count the claim gives a match type.
ClaimedSlots(match_type) == IF match_type = "Coop3vE" THEN 1..3 ELSE 1..2

\* C5: before any MapDetails the slot map is empty; a MapDetails event on an
\* empty slot map leaves exactly the slot numbers 1..N, N = 3 for Coop3vE and
\* 2 for any other match type (on a map already loaded it adds 1..N to the
\* slot numbers there); no other event that leaves the run going adds or
\* removes a slot number.
SlotNumbersFromMatchType ==
    /\ [](map_name = None => DOMAIN slots = {})
    /\ [](DOMAIN slots \in {{}, 1..2, 1..3})
    /\ [][/\ \A match_type \in MatchTypes :
                MapDetailsOf(match_type) =>
                    /\ DOMAIN slots' = DOMAIN slots \cup ClaimedSlots(match_type)
                    /\ DOMAIN slots = {} => DOMAIN slots' = ClaimedSlots(match_type)
          /\ \/ DOMAIN slots' = DOMAIN slots
             \/ pc' \notin {"simulate", "returned"}
             \/ \E match_type \in MatchTypes : MapDetailsOf(match_type)]_vars

\* C5 witness: a Coop3vE map was loaded, later events seated a client, and
\* the slot numbers are still 1..3.
ThreeSlotsLater ==
    /\ pc = "simulate"
    /\ map_name # None
    /\ DOMAIN slots = 1..3
    /\ \E n \in DOMAIN slots : IsSome(slots[n].client_id)

\* C6: a ChangeSlot with no slot in the map ends the run with the ordering
\* error, one with slots but an unknown acting client ends it with the
\* unknown-client error, and a run that ended in an error takes no further
\* step (no GameState is returned, no later event is applied).
ChangeSlotPreconditions ==
    [][/\ \A c \in ClientIds, choice \in Choices :
              ChangeSlotOf(c, choice) =>
                  /\ DOMAIN slots = {} =>
                        (pc' = "raised" /\ error' = ErrBeforeMap)
                  /\ (DOMAIN slots # {} /\ c \notin DOMAIN clients) =>
                        (pc' = "raised" /\ error' = ErrUnknownClient)
       /\ pc = "raised" => (pc' = "raised" /\ state' = state)]_vars

\* C6 witness: the run ended with the unknown-client error, chunks of the
\* recording still unread.
UnknownClientEndedRun ==
    /\ pc = "raised"
    /\ error = ErrUnknownClient
    /\ nread < length

\* The protocol faults the claim lists.
ListedFaults == {ErrBeforeMap, ErrUnknownClient, ErrOutOfRange, ErrNotOpen}

\* C7: processing an event either goes on (and at the end returns the
\* GameState) or ends the run with one of the listed protocol faults; it
\* never ends it in any other way.
OnlyListedTerminations ==
    decoded = "chunk" =>
        /\ pc \in {"simulate", "raised"}
        /\ pc = "raised" => error \in ListedFaults

\* The step leaves simulate with a GameState: the loop goes on, or the state
\* is returned.
KeepsState == pc' \in {"simulate", "returned"}

\* C8 as claimed: once a departure timestamp is set after the start, the
\* client is in the clients map with a non-null left_game_time in every later
\* state, whatever events follow.
DepartureKeptForever ==
    [][\A c \in ClientIds :
          (/\ game_started /\ c \in DOMAIN clients /\ IsSome(clients[c].left_game_time)
           /\ KeepsState)
          => (c \in DOMAIN clients' /\ IsSome(clients'[c].left_game_time))]_vars

\* C8 amended: the client id stays in the clients map in every later state,
\* and its left_game_time stays non-null until a Player event of that client
\* id, or a ClientConnected event announcing it, that carries a player
\* identifier replaces the client record by a fresh one.
DepartureKeptUntilReplaced ==
    [][\A c \in ClientIds :
          (/\ game_started /\ c \in DOMAIN clients /\ IsSome(clients[c].left_game_time)
           /\ KeepsState)
          => /\ c \in DOMAIN clients'
             /\ \/ IsSome(clients'[c].left_game_time)
                \/ \E u \in Uuids, name \in PlayerNames : PlayerOf(c, Some(u), name)
                \/ \E u \in Uuids : ClientConnectedOf(c, Some(u))]_vars

\* C8 witness: a departure recorded by an earlier chunk is still there after
\* a later chunk has been processed.
DepartureOutlivesEvent ==
    /\ pc = "simulate"
    /\ game_started
    /\ \E c \in DOMAIN clients :
          /\ IsSome(clients[c].left_game_time)
          /\ clients[c].left_game_time[1] < nread

RECURSIVE Oks(_)
\* The Ok values of a sequence of results, in order.
Oks(results) ==
    IF results = <<>> THEN <<>>
    ELSE (IF IsSome(Head(results)) THEN <<Head(results)[1]>> ELSE <<>>) \o Oks(Tail(results))

\* C9: simulate_replay_files never fails as a whole, and what it returns is
\* the GameStates of the recordings whose simulation succeeded, in input
\* order, every recording having been processed.
BatchNeverFails ==
    /\ pc # "panicked"
    /\ pc = "collected" => (paths = 0 /\ collected = Oks(finished))

\* C10: the stream ends cleanly only where no length prefix can be read, and
\* a short payload or a malformed record reaches the caller of
\* simulate_replay_file as an error it returns, never as a GameState.
DecodeFailureIsReturned ==
    /\ pc = "returned" => decoded = "end"
    /\ decoded \in {"short read", "bad record"} => pc = "raised"

\* The ChangeSlot of client c passes the checks before the reassignment: a
\* slot exists, c is a known client, and c's recorded slot (if it is a seat)
\* exists and has been vacated.
PreviousVacated(c) ==
    /\ DOMAIN slots # {}
    /\ c \in DOMAIN clients
    /\ \/ clients[c].slot_number \in {None, Some(255)}
       \/ clients[c].slot_number[1] \in DOMAIN slots

\* Slot n admits client c once c's recorded slot has been vacated: it is
\* Human and has no occupant, or it is the slot c's record names.
OpenFor(c, n) ==
    /\ slots[n].slot_type = "Human"
    /\ \/ slots[n].client_id = None
       \/ clients[c].slot_number = Some(n)

\* C11: a ChangeSlot from a known client for a specific slot s # 255, its
\* previous slot vacated, is fatal exactly when s is no slot of the map, or
\* slot s is not Human, or slot s (after the vacating) has an occupant;
\* otherwise the run goes on with slot s occupied by the client and the
\* client's slot_number s.
SpecificSlotFatalIff ==
    [][\A c \in ClientIds, s \in SlotArgs \ {255} :
          (ChangeSlotOf(c, [kind |-> "SpecificSlot", slot |-> s]) /\ PreviousVacated(c))
          => IF s \in DOMAIN slots /\ OpenFor(c, s)
             THEN /\ pc' = "simulate"
                  /\ slots'[s].client_id = Some(c)
                  /\ clients'[c].slot_number = Some(s)
             ELSE pc' = "raised"]_vars

\* C11 witness: the run ended with the non-Human-or-occupied error, which
\* only a ChangeSlot for a specific slot returns.
NotOpenEndedRun ==
    /\ pc = "raised"
    /\ error = ErrNotOpen

\* The slots that admit client c once its recorded slot has been vacated.
OpenSlotsFor(c) == {n \in DOMAIN slots : OpenFor(c, n)}

\* The lowest of them, or 255 when there is none.
LowestOpenFor(c) ==
    IF OpenSlotsFor(c) = {} THEN 255
    ELSE CHOOSE n \in OpenSlotsFor(c) : \A j \in OpenSlotsFor(c) : n <= j

\* C12: a ChangeSlot from a known client with no specific slot, its previous
\* slot vacated, never ends the run; the client's new slot number is the
\* lowest Human slot without occupant after the vacating, or 255 when there is
\* none, and that slot is then occupied by the client; a client seated in the
\* lowest open Human slot is put back in it.
AutoSlotIsLowestOpen ==
    [][\A c \in ClientIds :
          (ChangeSlotOf(c, [kind |-> "None"]) /\ PreviousVacated(c))
          => /\ pc' = "simulate"
             /\ clients'[c].slot_number = Some(LowestOpenFor(c))
             /\ LowestOpenFor(c) # 255 => slots'[LowestOpenFor(c)].client_id = Some(c)
             /\ (/\ clients[c].slot_number = Some(LowestOpenFor(c))
                 /\ LowestOpenFor(c) # 255
                 /\ slots[LowestOpenFor(c)].client_id = Some(c))
                => (slots' = slots /\ clients' = clients)]_vars

\* C12 witness: with no slot assignment ever recorded, a client sits in slot
\* 2 while slot 1 is not Human: ChangeSlot passed over slot 1.
SeatedPastClosedSlot ==
    /\ pc = "simulate"
    /\ slot_assignments = EmptyMap
    /\ 2 \in DOMAIN slots
    /\ slots[1].slot_type # "Human"
    /\ \E c \in DOMAIN clients :
          /\ clients[c].slot_number = Some(2)
          /\ slots[2].client_id = Some(c)

\* C13: a PlayerLeftGame before the start from a client id not in the clients
\* map, a SetVariable on an existing slot with a recognized variable id and
\* an unrecognized value, and a SetVariable on an existing slot with an
\* unrecognized variable id each leave the whole GameState unchanged and the
\* run going.
AnomaliesAreNoOps ==
    [][/\ \A t \in Timestamps, c \in ClientIds, reason \in LeftReasons :
             (PlayerLeftGameOf(t, c, reason) /\ ~game_started /\ c \notin DOMAIN clients)
             => (state' = state /\ pc' = "simulate")
       /\ \A n \in VariableSlots, id \in VariableIds, v \in Values :
             (/\ SetVariableOf(n, id, v)
              /\ n \in DOMAIN slots
              /\ \/ id \notin {VarSlotType, VarFaction, VarAiType}
                 \/ v \notin {0, 1, 2})
             => (state' = state /\ pc' = "simulate")]_vars

\* C13 witness: the map is loaded and two further chunks have been
\* processed, and the GameState is still the one MapDetails left.
NothingSinceMapDetails ==
    /\ pc = "simulate"
    /\ nread = 3
    /\ map_name # None
    /\ \A n \in DOMAIN slots : slots[n] = DefaultSlot
    /\ clients = EmptyMap
    /\ slot_assignments = EmptyMap
    /\ ~game_started

\* C14: a SetVariable on a slot number that is no slot of the map is the fatal
\* slot-out-of-range error whatever the variable id; on an existing slot it
\* changes at most slot_type, faction and ai_type of that slot, and no
\* occupant, no other slot, no client, no slot assignment, nor the started
\* flag.
SetVariableFrame ==
    [][\A n \in VariableSlots, id \in VariableIds, v \in Values :
          SetVariableOf(n, id, v) =>
              IF n \notin DOMAIN slots
              THEN pc' = "raised" /\ error' = ErrOutOfRange
              ELSE /\ pc' = "simulate"
                   /\ DOMAIN slots' = DOMAIN slots
                   /\ \A k \in DOMAIN slots \ {n} : slots'[k] = slots[k]
                   /\ slots'[n].client_id = slots[n].client_id
                   /\ UNCHANGED <<clients, slot_assignments, game_started,
                                  game_started_time, map_name>>]_vars

\* C14 witness: an occupied slot whose type is no longer the default Human.
OccupiedSlotRetyped ==
    /\ pc = "simulate"
    /\ \E n \in DOMAIN slots :
          /\ IsSome(slots[n].client_id)
          /\ slots[n].slot_type # "Human"

\* C15: a Player event carrying a player identifier that has a SlotAssignment
\* with slot number n is processed without ending the run, in any state
\* (also before MapDetails and when n is no slot of the map); afterwards the
\* client of the envelope's client_id has slot_number n and slot n, when it
\* exists, is occupied by that client. ClientConnected does the same for the
\* client id it announces.
AssignedSlotAdopted ==
    [][\A c \in ClientIds, u \in Uuids :
          (/\ u \in DOMAIN slot_assignments
           /\ \/ \E name \in PlayerNames : PlayerOf(c, Some(u), name)
              \/ ClientConnectedOf(c, Some(u)))
          => /\ pc' = "simulate"
             /\ c \in DOMAIN clients'
             /\ clients'[c].slot_number = Some(slot_assignments[u].slot_number)
             /\ slot_assignments[u].slot_number \in DOMAIN slots' =>
                   slots'[slot_assignments[u].slot_number].client_id = Some(c)]_vars

\* C16: a ClientDisconnected before the start leaves the GameState unchanged;
\* after the start, for a target whose left_game_time is set, it leaves that
\* client's departure time and reason as they are; after the start, for a
\* known target with no left_game_time whose uuid is the one supplied, it sets
\* left_game_time to the chunk's timestamp and left_game_reason to the event's
\* reason and changes nothing else.
DisconnectEffect ==
    [][\A t \in Timestamps, c \in ClientIds, u \in OptionalUuids, reason \in DisconnectReasons :
          ClientDisconnectedOf(t, c, u, reason) =>
              /\ ~game_started => (state' = state /\ pc' = "simulate")
              /\ (game_started /\ c \in DOMAIN clients /\ IsSome(clients[c].left_game_time))
                 => (state' = state /\ pc' = "simulate")
              /\ (/\ game_started
                  /\ c \in DOMAIN clients
                  /\ clients[c].left_game_time = None
                  /\ u = Some(clients[c].uuid))
                 => /\ pc' = "simulate"
                    /\ DOMAIN clients' = DOMAIN clients
                    /\ clients'[c] = [clients[c] EXCEPT
                                         !.left_game_time = Some(t),
                                         !.left_game_reason = LeaveReasonFrom(reason)]
                    /\ \A d \in DOMAIN clients \ {c} : clients'[d] = clients[d]
                    /\ UNCHANGED <<map_name, slots, game_started, game_started_time,
                                   slot_assignments>>]_vars

\* C16 witness: the chunk just processed was a ClientDisconnected (reason
\* Disconnect) after the start, and its timestamp is the client's departure.
DisconnectedAfterStart ==
    /\ pc = "simulate"
    /\ game_started
    /\ \E c \in DOMAIN clients :
          /\ clients[c].left_game_reason = "Disconnect"
          /\ clients[c].left_game_time = Some(nread)

\* C17: an envelope without content, and an AssignPlayerSlot, Player or
\* ClientConnected without a player identifier, leave the GameState unchanged
\* and the run going; an AssignPlayerSlot with a player identifier changes
\* only slot_assignments, where it adds or overwrites that identifier's
\* entry; and no step that keeps the GameState removes an entry of
\* slot_assignments.
SkippedChangeNothing ==
    [][/\ SkipEmpty => (state' = state /\ pc' = "simulate")
       /\ (\/ \E slot \in SlotArgs : AssignPlayerSlotOf(None, slot)
           \/ \E c \in ClientIds, name \in PlayerNames : PlayerOf(c, None, name)
           \/ \E c \in ClientIds : ClientConnectedOf(c, None))
          => (state' = state /\ pc' = "simulate")
       /\ \A u \in Uuids, slot \in SlotArgs :
             AssignPlayerSlotOf(Some(u), slot) =>
                 /\ pc' = "simulate"
                 /\ DOMAIN slot_assignments' = DOMAIN slot_assignments \cup {u}
                 /\ slot_assignments'[u].slot_number = slot
                 /\ \A w \in DOMAIN slot_assignments \ {u} :
                       slot_assignments'[w] = slot_assignments[w]
                 /\ UNCHANGED <<map_name, slots, clients, game_started, game_started_time>>
       /\ KeepsState => DOMAIN slot_assignments \subseteq DOMAIN slot_assignments']_vars

\* C17 witness: both player identifiers have a slot assignment, one of them
\* overwritten or followed by further chunks, and nothing else has changed.
AssignmentsOnly ==
    /\ pc = "simulate"
    /\ nread >= 3
    /\ DOMAIN slot_assignments = Uuids
    /\ clients = EmptyMap
    /\ slots = EmptyMap
    /\ map_name = None
    /\ ~game_started

\* C18: every occupant of a slot is the id of a client in the clients map,
\* and every entry of the clients map is stored under its own client_id.
OccupantsAreClients ==
    /\ \A n \in DOMAIN slots :
          IsSome(slots[n].client_id) => slots[n].client_id[1] \in DOMAIN clients
    /\ \A c \in DOMAIN clients : clients[c].client_id = c

\* C18 witness: a client was seated through a slot assignment and has left
\* the lobby again: nobody is in the clients map and every slot is free.
LobbyEmptiedAgain ==
    /\ pc = "simulate"
    /\ ~game_started
    /\ nread >= 4
    /\ DOMAIN slots # {}
    /\ \E u \in DOMAIN slot_assignments : slot_assignments[u].slot_number \in DOMAIN slots
    /\ clients = EmptyMap
    /\ \A n \in DOMAIN slots : slots[n].client_id = None

\* C19: whenever slot n has occupant c, client c's recorded slot_number is n.
OccupantRecordsItsSlot ==
    \A n \in DOMAIN slots :
        IsSome(slots[n].client_id) =>
            /\ slots[n].client_id[1] \in DOMAIN clients
            /\ clients[slots[n].client_id[1]].slot_number = Some(n)

\* C20: a ChangeSlot of client c that does not end the run changes the
\* occupant of no slot that was occupied by another client, and of no slot
\* other than the one c occupied before and the one c occupies after.
ChangeSlotTouchesOwnSlots ==
    [][\A c \in ClientIds, choice \in Choices :
          (ChangeSlotOf(c, choice) /\ pc' = "simulate")
          => \A n \in DOMAIN slots :
                slots'[n].client_id # slots[n].client_id =>
                    /\ slots[n].client_id \in {None, Some(c)}
                    /\ slots'[n].client_id \in {None, Some(c)}]_vars

====
